---- MODULE Spec2Model ----
(***************************************************************************)
(* Model of csvw/ashe-example/main.go: one metadata document is fetched    *)
(* with a single GET, projected into a CSVW document, given a column list  *)
(* derived from a fixed V4 header literal and a note list, marshalled and  *)
(* printed.                                                                *)
(*                                                                         *)
(* A Go string is modelled as the sequence of its characters, so that      *)
(* strings.Split, strings.ToLower, strconv.Atoi, strconv.Itoa and string   *)
(* concatenation are computed rather than assumed.  A Go pointer is a      *)
(* sequence of length at most one: <<>> is nil, <<v>> points to v.  A      *)
(* Column (map[string]interface{}) is a function from attribute names to   *)
(* values.                                                                 *)
(***************************************************************************)
EXTENDS Integers, Sequences, FiniteSets, TLC

VARIABLES
    pc,         \* the step of main / getMetadata that runs next
    status,     \* "running", "returned" (main returned), "fatal" (log.Fatal), "panic"
    resp,       \* getMetadata's resp: nil or the response, with its body
    deferred,   \* whether getMetadata has deferred resp.Body.Close()
    b,          \* getMetadata's b: the bytes read from the body
    decodeErr,  \* whether json.Unmarshal returned an error
    metadata,   \* main's metadata: the pointer getMetadata returned
    csv,        \* main's csv: the pointer assignTopLevel returned
    bytes,      \* main's b: the bytes json.Marshal returned
    stdout,     \* what has been written to standard output
    logged,     \* what has been written through the log package
    completed   \* the steps of main that have run to completion, in order

vars == <<pc, status, resp, deferred, b, decodeErr, metadata, csv, bytes,
          stdout, logged, completed>>

----------------------------------------------------------------------------
(* Bounds of the enumerated inputs. *)

MaxDims == 2

MaxContacts == 2

MaxAlerts == 2

MaxNotes == 2

----------------------------------------------------------------------------
(* Pointers. *)

NIL == <<>>

Ref(v) == <<v>>

Deref(p) == p[1]

----------------------------------------------------------------------------
(* String literals of the program. *)

url ==
    <<"h","t","t","p","s",":","/","/","a","p","i",".","b","e","t","a",".","o","n","s",".",
      "g","o","v",".","u","k","/","v","1","/","d","a","t","a","s","e","t","s","/","a","s",
      "h","e","-","t","a","b","l","e","-","7","-","h","o","u","r","s","/","e","d","i","t",
      "i","o","n","s","/","t","i","m","e","-","s","e","r","i","e","s","/","v","e","r","s",
      "i","o","n","s","/","1","/","m","e","t","a","d","a","t","a">>

headerRow ==
    <<"V","4","_","2",",","D","a","t","a"," ","m","a","r","k","i","n","g",",","C","o","e",
      "f","f","i","c","i","e","n","t"," ","o","f"," ","v","a","r","i","a","t","i","o","n",
      ",","T","i","m","e","_","c","o","d","e","l","i","s","t",",","T","i","m","e",",","a",
      "s","h","e","-","g","e","o","g","r","a","p","h","y",",","G","e","o","g","r","a","p",
      "h","y",",","H","o","u","r","s","_","c","o","d","e","l","i","s","t",",","H","o","u",
      "r","s",",","S","e","x","_","c","o","d","e","l","i","s","t",",","S","e","x",",","W",
      "o","r","k","i","n","g","P","a","t","t","e","r","n","_","c","o","d","e","l","i","s",
      "t",",","W","o","r","k","i","n","g","P","a","t","t","e","r","n",",","S","t","a","t",
      "i","s","t","i","c","s","_","c","o","d","e","l","i","s","t",",","S","t","a","t","i",
      "s","t","i","c","s">>

ContextURL ==
    <<"h","t","t","p",":","/","/","w","w","w",".","w","3",".","o","r","g","/","n","s","/",
      "c","s","v","w">>

ColFragment == <<"#","c","o","l","=">>

NoteFragment == <<"#","c","o","l","=","n","e","e","d","-","t","o","-","s","t","o","r","e">>

CodesPrefix == <<"/","c","o","d","e","s","/","{">>

CodesSuffix == <<"}">>

NumberType == <<"n","u","m","b","e","r">>

DiagSeparator == <<" ","-","-","-"," ">>

----------------------------------------------------------------------------
(* Library functions on strings. *)

UpperChars ==
    <<"A","B","C","D","E","F","G","H","I","J","K","L","M",
      "N","O","P","Q","R","S","T","U","V","W","X","Y","Z">>

LowerChars ==
    <<"a","b","c","d","e","f","g","h","i","j","k","l","m",
      "n","o","p","q","r","s","t","u","v","w","x","y","z">>

DigitChars == <<"0","1","2","3","4","5","6","7","8","9">>

(* strings.ToLower on ASCII text: every upper-case letter becomes its
   lower-case letter, every other character is kept. *)
ToLowerChar(c) ==
    IF \E i \in DOMAIN UpperChars : UpperChars[i] = c
    THEN LowerChars[CHOOSE i \in DOMAIN UpperChars : UpperChars[i] = c]
    ELSE c

ToLower(s) == [i \in DOMAIN s |-> ToLowerChar(s[i])]

(* Whether sep occurs in s at position i. *)
OccursAt(s, sep, i) ==
    /\ i + Len(sep) - 1 <= Len(s)
    /\ SubSeq(s, i, i + Len(sep) - 1) = sep

(* strings.Split with a non-empty separator: the pieces between the
   leftmost non-overlapping occurrences, n+1 pieces for n occurrences. *)
RECURSIVE Split(_, _)
Split(s, sep) ==
    LET hits == {i \in 1..Len(s) : OccursAt(s, sep, i)}
    IN  IF hits = {}
        THEN <<s>>
        ELSE LET i == CHOOSE h \in hits : \A g \in hits : h <= g
             IN  <<SubSeq(s, 1, i - 1)>> \o Split(SubSeq(s, i + Len(sep), Len(s)), sep)

IsDigit(c) == \E i \in DOMAIN DigitChars : DigitChars[i] = c

DigitValue(c) == (CHOOSE i \in DOMAIN DigitChars : DigitChars[i] = c) - 1

RECURSIVE DecimalValue(_)
DecimalValue(s) ==
    IF s = <<>> THEN 0
    ELSE DecimalValue(SubSeq(s, 1, Len(s) - 1)) * 10 + DigitValue(s[Len(s)])

(* strconv.Atoi: an optional sign followed by one or more decimal digits;
   anything else is a syntax error.  The header count has one digit, so the
   range error of a value wider than an int is out of reach. *)
Atoi(s) ==
    LET signed == s # <<>> /\ s[1] \in {"+", "-"}
        digits == IF signed THEN Tail(s) ELSE s
    IN  IF digits = <<>> \/ \E i \in DOMAIN digits : ~IsDigit(digits[i])
        THEN [err |-> TRUE, val |-> 0]
        ELSE [err |-> FALSE,
              val |-> IF signed /\ s[1] = "-"
                      THEN 0 - DecimalValue(digits)
                      ELSE DecimalValue(digits)]

(* strconv.Itoa: the decimal digits, most significant first, "-" first
   for a negative number. *)
RECURSIVE Itoa(_)
Itoa(n) ==
    IF n < 0 THEN <<"-">> \o Itoa(0 - n)
    ELSE IF n < 10 THEN <<DigitChars[n + 1]>>
    ELSE Itoa(n \div 10) \o <<DigitChars[(n % 10) + 1]>>

----------------------------------------------------------------------------
(* Types of the program and of the metadata model it consumes. *)

(* The zero value of models.CodeList, as far as the program reads it. *)
ZeroCodeList == [Name |-> <<>>, Label |-> <<>>, Description |-> <<>>, HRef |-> <<>>]

(* Note{Type, Target, Body, Motivation}; Motivation is never assigned. *)
Note(type, body, target) ==
    [Type |-> type, Target |-> target, Body |-> body, Motivation |-> <<>>]

(* Go's s[i], indices from 0. *)
At(s, i) == s[i + 1]

----------------------------------------------------------------------------
(* addNotes *)

(* Variant: the two loops in the other order. *)
addNotesUsageFirst(u, alerts, notes) ==
    [i \in 1..Len(notes) |-> Note(notes[i].Title, notes[i].Note, u \o NoteFragment)]
    \o [i \in 1..Len(alerts) |-> Note(alerts[i].Type, alerts[i].Description, u)]

addNotes(u, alerts, notes) ==
    [i \in 1..Len(alerts) |-> Note(alerts[i].Type, alerts[i].Description, u)]
    \o [i \in 1..Len(notes) |-> Note(notes[i].Title, notes[i].Note, u \o NoteFragment)]

----------------------------------------------------------------------------
(* populateColumns *)

(* A panic of populateColumns; printed is what it wrote to standard output
   before panicking. *)
ColumnsPanic(printed) == [panicked |-> TRUE, list |-> <<>>, printed |-> printed]

ObservationFragment == ColFragment \o <<"0">>

observationCol(header, unit, csvURL) ==
    ("titles" :> At(header, 0)) @@ ("name" :> unit) @@ ("datatype" :> NumberType)
    @@ ("required" :> TRUE) @@ ("@id" :> csvURL \o ObservationFragment)

(* Variant: the position counted from the first marking column. *)
markingColZeroBased(header, i, csvURL) ==
    ("titles" :> At(header, i)) @@ ("@id" :> csvURL \o ColFragment \o Itoa(i - 1))

markingCol(header, i, csvURL) ==
    ("titles" :> At(header, i)) @@ ("@id" :> csvURL \o ColFragment \o Itoa(i))

(* Variant: the inner loop without its break, so the last match wins. *)
lookupDimLast(dims, dimHeader) ==
    LET hits == {k \in 1..Len(dims) : dims[k].Name = dimHeader}
    IN  IF hits = {}
        THEN ZeroCodeList
        ELSE dims[CHOOSE k \in hits : \A j \in hits : k >= j]

(* Variant: the stored name is lower-cased too before it is compared. *)
lookupDimFold(dims, dimHeader) ==
    LET hits == {k \in 1..Len(dims) : ToLower(dims[k].Name) = dimHeader}
    IN  IF hits = {}
        THEN ZeroCodeList
        ELSE dims[CHOOSE k \in hits : \A j \in hits : k <= j]

(* The inner loop over dims: the first entry whose Name equals dimHeader,
   the zero CodeList when there is none. *)
lookupDim(dims, dimHeader) ==
    LET hits == {k \in 1..Len(dims) : dims[k].Name = dimHeader}
    IN  IF hits = {}
        THEN ZeroCodeList
        ELSE dims[CHOOSE k \in hits : \A j \in hits : k <= j]

codeCol(codeHeader, dim, csvURL, pos) ==
    ("name" :> codeHeader) @@ ("@id" :> csvURL \o ColFragment \o Itoa(pos))
    @@ ("valueURL" :> dim.HRef \o CodesPrefix \o codeHeader \o CodesSuffix)
    @@ ("required" :> TRUE)

(* Variant: the label column with the "required" line left in. *)
labelColRequired(dimHeader, dim, csvURL, pos) ==
    ("titles" :> dim.Label) @@ ("name" :> dimHeader)
    @@ ("description" :> dim.Description)
    @@ ("@id" :> csvURL \o ColFragment \o Itoa(pos))
    @@ ("required" :> TRUE)

labelCol(dimHeader, dim, csvURL, pos) ==
    ("titles" :> dim.Label) @@ ("name" :> dimHeader)
    @@ ("description" :> dim.Description)
    @@ ("@id" :> csvURL \o ColFragment \o Itoa(pos))

(* The loop "for i := 0; i < len(header); i = i + 2" from index i on;
   header[i+1] is out of range when an odd number of tokens is left. *)
RECURSIVE dimensionLoop(_, _, _, _, _)
dimensionLoop(header, dims, csvURL, offset, i) ==
    IF i >= Len(header) THEN [panicked |-> FALSE, list |-> <<>>]
    ELSE IF i + 1 >= Len(header) THEN [panicked |-> TRUE, list |-> <<>>]
    ELSE LET codeHeader == At(header, i)
             dimHeader  == ToLower(At(header, i + 1))
             dim        == lookupDim(dims, dimHeader)
             rest       == dimensionLoop(header, dims, csvURL, offset, i + 2)
         IN  [panicked |-> rest.panicked,
              list |-> <<codeCol(codeHeader, dim, csvURL, offset + i),
                         labelCol(dimHeader, dim, csvURL, offset + i + 1)>>
                       \o rest.list]

populateColumns(dims, unit, csvURL) ==
    LET header == Split(headerRow, <<",">>)
        parts  == Split(At(header, 0), <<"_">>)
    IN  IF Len(parts) # 2
        THEN ColumnsPanic(<<At(parts, 0) \o DiagSeparator \o At(header, 0)>>)
        ELSE
        LET n == Atoi(At(parts, 1))
        IN  IF n.err THEN ColumnsPanic(<<>>)
            ELSE
            LET offset   == n.val
                markings == [i \in 1..offset |-> markingCol(header, i, csvURL)]
                next     == offset + 1
            IN  IF offset >= Len(header) \/ next < 0
                THEN ColumnsPanic(<<>>)
                ELSE
                LET loop == dimensionLoop(SubSeq(header, next + 1, Len(header)),
                                          dims, csvURL, next, 0)
                IN  IF loop.panicked
                    THEN ColumnsPanic(<<>>)
                    ELSE [panicked |-> FALSE,
                          list |-> <<observationCol(header, unit, csvURL)>>
                                   \o markings \o loop.list,
                          printed |-> <<>>]

----------------------------------------------------------------------------
(* assignTopLevel *)

(* Variant: the contact taken from the end of the list. *)
assignTopLevelLastContact(m) ==
    IF m = NIL \/ Deref(m).Contacts = <<>>
    THEN [panicked |-> TRUE, csv |-> NIL]
    ELSE [panicked |-> FALSE,
          csv |-> Ref([Context     |-> ContextURL,
                       URL         |-> Deref(m).Downloads.CSV.HRef,
                       Title       |-> Deref(m).Title,
                       Description |-> Deref(m).Description,
                       Issued      |-> Deref(m).ReleaseDate,
                       Theme       |-> Deref(m).Theme,
                       License     |-> Deref(m).License,
                       Frequency   |-> Deref(m).ReleaseFrequency,
                       Contact     |-> At(Deref(m).Contacts, Len(Deref(m).Contacts) - 1),
                       Creator     |-> [Name |-> Deref(m).Publisher.Name,
                                        Type |-> Deref(m).Publisher.Type,
                                        ID   |-> Deref(m).Publisher.HRef],
                       TableSchema |-> [C |-> <<>>, About |-> <<>>],
                       Notes       |-> <<>>])]

(* Variant: an empty Contacts guarded, the contact left at its zero value. *)
assignTopLevelUnchecked(m) ==
    IF m = NIL
    THEN [panicked |-> TRUE, csv |-> NIL]
    ELSE [panicked |-> FALSE,
          csv |-> Ref([Context     |-> ContextURL,
                       URL         |-> Deref(m).Downloads.CSV.HRef,
                       Title       |-> Deref(m).Title,
                       Description |-> Deref(m).Description,
                       Issued      |-> Deref(m).ReleaseDate,
                       Theme       |-> Deref(m).Theme,
                       License     |-> Deref(m).License,
                       Frequency   |-> Deref(m).ReleaseFrequency,
                       Contact     |-> IF Deref(m).Contacts = <<>>
                                      THEN [Name |-> <<>>, Email |-> <<>>,
                                            Telephone |-> <<>>]
                                      ELSE At(Deref(m).Contacts, 0),
                       Creator     |-> [Name |-> Deref(m).Publisher.Name,
                                        Type |-> Deref(m).Publisher.Type,
                                        ID   |-> Deref(m).Publisher.HRef],
                       TableSchema |-> [C |-> <<>>, About |-> <<>>],
                       Notes       |-> <<>>])]

(* m is a *models.Metadata.  Reading a field through a nil m, and indexing
   an empty Contacts, both panic.  TableSchema and Notes keep their zero
   values. *)
assignTopLevel(m) ==
    IF m = NIL \/ Deref(m).Contacts = <<>>
    THEN [panicked |-> TRUE, csv |-> NIL]
    ELSE [panicked |-> FALSE,
          csv |-> Ref([Context     |-> ContextURL,
                       URL         |-> Deref(m).Downloads.CSV.HRef,
                       Title       |-> Deref(m).Title,
                       Description |-> Deref(m).Description,
                       Issued      |-> Deref(m).ReleaseDate,
                       Theme       |-> Deref(m).Theme,
                       License     |-> Deref(m).License,
                       Frequency   |-> Deref(m).ReleaseFrequency,
                       Contact     |-> At(Deref(m).Contacts, 0),
                       Creator     |-> [Name |-> Deref(m).Publisher.Name,
                                        Type |-> Deref(m).Publisher.Type,
                                        ID   |-> Deref(m).Publisher.HRef],
                       TableSchema |-> [C |-> <<>>, About |-> <<>>],
                       Notes       |-> <<>>])]

----------------------------------------------------------------------------
(* The metadata documents the API may serve. *)

SeqsUpTo(S, n) == UNION {[1..k -> S] : k \in 0..n}

PtrSeqsUpTo(S, n) == {NIL} \cup {Ref(s) : s \in SeqsUpTo(S, n)}

CodeLists ==
    { [Name |-> <<"t","i","m","e">>, Label |-> <<"L","1">>,
       Description |-> <<"D","1">>, HRef |-> <<"h","1">>],
      [Name |-> <<"t","i","m","e">>, Label |-> <<"L","2">>,
       Description |-> <<"D","2">>, HRef |-> <<"h","2">>],
      [Name |-> <<"T","i","m","e">>, Label |-> <<"L","3">>,
       Description |-> <<"D","3">>, HRef |-> <<"h","3">>],
      [Name |-> <<"w","o","r","k","i","n","g","p","a","t","t","e","r","n">>,
       Label |-> <<"L","4">>, Description |-> <<"D","4">>, HRef |-> <<"h","4">>] }

ContactDetails ==
    { [Name |-> <<"n","1">>, Email |-> <<"e","1">>, Telephone |-> <<"1">>],
      [Name |-> <<"n","2">>, Email |-> <<"e","2">>, Telephone |-> <<"2">>] }

Alerts ==
    { [Type |-> <<"a","t","1">>, Description |-> <<"a","d","1">>],
      [Type |-> <<"a","t","2">>, Description |-> <<"a","d","2">>] }

UsageNotes ==
    { [Title |-> <<"u","t","1">>, Note |-> <<"u","n","1">>],
      [Title |-> <<"u","t","2">>, Note |-> <<"u","n","2">>] }

(* The scalar fields of a document: two documents, no value used twice. *)
Scalars ==
    { [Title |-> <<"T", k>>, Description |-> <<"D", k>>, ReleaseDate |-> <<"R", k>>,
       Theme |-> <<"H", k>>, License |-> <<"L", k>>, ReleaseFrequency |-> <<"F", k>>,
       UnitOfMeasure |-> <<"U", k>>,
       Publisher |-> [Name |-> <<"P", k>>, Type |-> <<"Y", k>>, HRef |-> <<"p", k>>],
       Downloads |-> [CSV |-> [HRef |-> <<"c", k>>]]] : k \in {"1", "2"} }

(* models.Metadata, as far as main reads it.  Publisher and Downloads.CSV
   are read as m.Publisher.Name and m.Downloads.CSV.HRef; every document
   enumerated here carries both. *)
Metadata(s, dims, contacts, alerts, usage) ==
    [Title |-> s.Title, Description |-> s.Description, ReleaseDate |-> s.ReleaseDate,
     Theme |-> s.Theme, License |-> s.License, ReleaseFrequency |-> s.ReleaseFrequency,
     UnitOfMeasure |-> s.UnitOfMeasure, Publisher |-> s.Publisher,
     Downloads |-> s.Downloads, Dimensions |-> dims, Contacts |-> contacts,
     Alerts |-> alerts, UsageNotes |-> usage]

(* var md models.Metadata *)
ZeroMetadata ==
    Metadata([Title |-> <<>>, Description |-> <<>>, ReleaseDate |-> <<>>,
              Theme |-> <<>>, License |-> <<>>, ReleaseFrequency |-> <<>>,
              UnitOfMeasure |-> <<>>,
              Publisher |-> [Name |-> <<>>, Type |-> <<>>, HRef |-> <<>>],
              Downloads |-> [CSV |-> [HRef |-> <<>>]]],
             <<>>, <<>>, NIL, NIL)

Metadatas(D, C, A, U) ==
    {Metadata(s, d, c, a, u) : s \in Scalars, d \in D, c \in C, a \in A, u \in U}

(* Lists of at most one element, for the parts a family of documents does
   not vary. *)
FewDims == SeqsUpTo({CHOOSE d \in CodeLists : d.Label = <<"L","1">>}, 1)

FewContacts == SeqsUpTo({CHOOSE c \in ContactDetails : c.Name = <<"n","1">>}, 1)

FewAlerts == {NIL, Ref(<<CHOOSE a \in Alerts : a.Type = <<"a","t","1">>>>)}

FewUsageNotes == {NIL, Ref(<<CHOOSE u \in UsageNotes : u.Title = <<"u","t","1">>>>)}

(* populateColumns, assignTopLevel and addNotes read disjoint parts of the
   document (main.go:58-73), so each part is varied to its bound against
   the short lists of the other parts. *)
Documents ==
    Metadatas(SeqsUpTo(CodeLists, MaxDims), FewContacts, FewAlerts, FewUsageNotes)
    \cup Metadatas(FewDims, SeqsUpTo(ContactDetails, MaxContacts), FewAlerts, FewUsageNotes)
    \cup Metadatas(FewDims, FewContacts,
                   PtrSeqsUpTo(Alerts, MaxAlerts), PtrSeqsUpTo(UsageNotes, MaxNotes))

(* A response body: the JSON of a document ("json"), the JSON of a document
   with a value of the wrong type for "title" ("mistyped"), or text that is
   not JSON ("malformed"). *)
Bodies ==
    {[kind |-> k, doc |-> m] : k \in {"json", "mistyped"}, m \in Documents}
    \cup {[kind |-> "malformed", doc |-> ZeroMetadata]}

(* json.Unmarshal(b, &md) into a zero md: text that is not JSON is rejected
   before anything is stored; a value of the wrong type is skipped, the
   other fields are stored, and the error is returned at the end. *)
Unmarshal(body) ==
    CASE body.kind = "json"      -> [err |-> FALSE, md |-> body.doc]
      [] body.kind = "mistyped"  -> [err |-> TRUE,  md |-> [body.doc EXCEPT !.Title = <<>>]]
      [] body.kind = "malformed" -> [err |-> TRUE,  md |-> ZeroMetadata]

(* json.Marshal(csv): the bytes are the encoding of the document. *)
Marshal(doc) == [kind |-> "json", doc |-> doc]

----------------------------------------------------------------------------
(* The run of the program. *)

Init ==
    /\ pc = "NewRequest"
    /\ status = "running"
    /\ resp = NIL
    /\ deferred = FALSE
    /\ b = NIL
    /\ decodeErr = FALSE
    /\ metadata = NIL
    /\ csv = NIL
    /\ bytes = NIL
    /\ stdout = <<>>
    /\ logged = <<>>
    /\ completed = <<>>

(* log.Fatal: the message is logged and os.Exit(1) ends the process where
   it stands; deferred calls do not run. *)
logFatal(msg) ==
    /\ logged' = Append(logged, msg)
    /\ status' = "fatal"
    /\ pc' = pc

(* The deferred calls of getMetadata run as it returns. *)
runDeferred(r, d) == IF d THEN Ref([Deref(r) EXCEPT !.closed = TRUE]) ELSE r

(* getMetadata: http.NewRequest("GET", url, nil).  getMetadata takes any
   url, so both outcomes of the call are kept. *)
NewRequest ==
    /\ pc = "NewRequest" /\ status = "running"
    /\ \E err \in BOOLEAN :
         IF err
         THEN /\ logFatal("NewRequest: ")
              /\ UNCHANGED <<resp, deferred, b, decodeErr, metadata, csv, bytes,
                             stdout, completed>>
         ELSE /\ pc' = "Do"
              /\ UNCHANGED <<status, resp, deferred, b, decodeErr, metadata, csv,
                             bytes, stdout, logged, completed>>

(* getMetadata: client.Do(req): a transport error, or a response with one
   of the bodies the server may send. *)
Do ==
    /\ pc = "Do" /\ status = "running"
    /\ \/ /\ logFatal("Do: ")
          /\ UNCHANGED resp
       \/ \E body \in Bodies :
            /\ resp' = Ref([Body |-> body, closed |-> FALSE])
            /\ pc' = "ReadAll"
            /\ UNCHANGED <<status, logged>>
    /\ UNCHANGED <<deferred, b, decodeErr, metadata, csv, bytes, stdout, completed>>

(* getMetadata: ioutil.ReadAll(resp.Body).  A read error returns nil to
   main before the Close is deferred. *)
ReadAll ==
    /\ pc = "ReadAll" /\ status = "running"
    /\ \E err \in BOOLEAN :
         IF err
         THEN /\ metadata' = NIL
              /\ resp' = runDeferred(resp, deferred)
              /\ pc' = "assignTopLevel"
              /\ completed' = Append(completed, "getMetadata")
              /\ UNCHANGED <<b, deferred>>
         ELSE /\ b' = Ref(Deref(resp).Body)
              /\ deferred' = TRUE
              /\ pc' = "Unmarshal"
              /\ UNCHANGED <<metadata, resp, completed>>
    /\ UNCHANGED <<status, decodeErr, csv, bytes, stdout, logged>>

(* getMetadata: json.Unmarshal(b, &md), the error logged and dropped, then
   return &md, on which the deferred Close runs. *)
UnmarshalAndReturn ==
    /\ pc = "Unmarshal" /\ status = "running"
    /\ LET r == Unmarshal(Deref(b))
       IN  /\ decodeErr' = r.err
           /\ logged' = IF r.err THEN Append(logged, "Unmarshal: ") ELSE logged
           /\ metadata' = Ref(r.md)
    /\ resp' = runDeferred(resp, deferred)
    /\ pc' = "assignTopLevel"
    /\ completed' = Append(completed, "getMetadata")
    /\ UNCHANGED <<status, deferred, b, csv, bytes, stdout>>

(* main: csv := assignTopLevel(metadata) *)
AssignTopLevel ==
    /\ pc = "assignTopLevel" /\ status = "running"
    /\ LET r == assignTopLevel(metadata)
       IN  IF r.panicked
           THEN /\ status' = "panic"
                /\ UNCHANGED <<pc, csv, completed>>
           ELSE /\ csv' = r.csv
                /\ pc' = "populateColumns"
                /\ completed' = Append(completed, "assignTopLevel")
                /\ UNCHANGED status
    /\ UNCHANGED <<resp, deferred, b, decodeErr, metadata, bytes, stdout, logged>>

(* main: csv.TableSchema.About = url; csv.TableSchema.C = populateColumns(...) *)
PopulateColumns ==
    /\ pc = "populateColumns" /\ status = "running"
    /\ LET m == Deref(metadata)
           r == populateColumns(m.Dimensions, m.UnitOfMeasure, m.Downloads.CSV.HRef)
       IN  /\ stdout' = stdout \o [i \in 1..Len(r.printed) |->
                                      [kind |-> "text", doc |-> r.printed[i]]]
           /\ IF r.panicked
              THEN /\ csv' = Ref([Deref(csv) EXCEPT !.TableSchema.About = url])
                   /\ status' = "panic"
                   /\ UNCHANGED <<pc, completed>>
              ELSE /\ csv' = Ref([Deref(csv) EXCEPT
                                     !.TableSchema = [C |-> r.list, About |-> url]])
                   /\ pc' = "addNotes"
                   /\ completed' = Append(completed, "populateColumns")
                   /\ UNCHANGED status
    /\ UNCHANGED <<resp, deferred, b, decodeErr, metadata, bytes, logged>>

(* main: alerts and usage are the lists behind the two pointers, empty for
   a nil pointer; csv.Notes = addNotes(...) *)
AddNotes ==
    /\ pc = "addNotes" /\ status = "running"
    /\ LET m      == Deref(metadata)
           alerts == IF m.Alerts # NIL THEN Deref(m.Alerts) ELSE <<>>
           usage  == IF m.UsageNotes # NIL THEN Deref(m.UsageNotes) ELSE <<>>
       IN  csv' = Ref([Deref(csv) EXCEPT
                          !.Notes = addNotes(m.Downloads.CSV.HRef, alerts, usage)])
    /\ pc' = "Marshal"
    /\ completed' = Append(completed, "addNotes")
    /\ UNCHANGED <<status, resp, deferred, b, decodeErr, metadata, bytes, stdout, logged>>

(* main: b, err := json.Marshal(csv); panic(err) on an error.  Both
   outcomes of the call are kept. *)
MarshalStep ==
    /\ pc = "Marshal" /\ status = "running"
    /\ \E err \in BOOLEAN :
         IF err
         THEN /\ status' = "panic"
              /\ UNCHANGED <<pc, bytes, completed>>
         ELSE /\ bytes' = Ref(Marshal(Deref(csv)))
              /\ pc' = "Println"
              /\ completed' = Append(completed, "Marshal")
              /\ UNCHANGED status
    /\ UNCHANGED <<resp, deferred, b, decodeErr, metadata, csv, stdout, logged>>

(* main: fmt.Println(string(b)), after which main returns. *)
Println ==
    /\ pc = "Println" /\ status = "running"
    /\ stdout' = Append(stdout, Deref(bytes))
    /\ pc' = "exit"
    /\ status' = "returned"
    /\ completed' = Append(completed, "Println")
    /\ UNCHANGED <<resp, deferred, b, decodeErr, metadata, csv, bytes, logged>>

Next ==
    \/ NewRequest
    \/ Do
    \/ ReadAll
    \/ UnmarshalAndReturn
    \/ AssignTopLevel
    \/ PopulateColumns
    \/ AddNotes
    \/ MarshalStep
    \/ Println

Spec == Init /\ [][Next]_vars

----------------------------------------------------------------------------
(* What the properties below refer to. *)

(* csv.TableSchema.C has been assigned. *)
ColumnsAssigned == pc \in {"addNotes", "Marshal", "Println", "exit"}

(* csv.Notes has been assigned. *)
NotesAssigned == pc \in {"Marshal", "Println", "exit"}

(* assignTopLevel has returned a document to main. *)
Projected == pc \in {"populateColumns", "addNotes", "Marshal", "Println", "exit"}

(* getMetadata has returned to main. *)
Fetched == completed # <<>>

Columns == Deref(csv).TableSchema.C

Dims == Deref(metadata).Dimensions

CsvURL == Deref(metadata).Downloads.CSV.HRef

(* The documents written to standard output. *)
PrintedDocs == SelectSeq(stdout, LAMBDA w : w.kind = "json")

(* The decimal numerals 0..14, written out. *)
Numeral ==
    <<<<"0">>,
      <<"1">>,
      <<"2">>,
      <<"3">>,
      <<"4">>,
      <<"5">>,
      <<"6">>,
      <<"7">>,
      <<"8">>,
      <<"9">>,
      <<"1","0">>,
      <<"1","1">>,
      <<"1","2">>,
      <<"1","3">>,
      <<"1","4">>>>

(* The code-header and the lower-cased dimension-header of the six
   dimension pairs of the header literal, written out. *)
CodeHeaders ==
    <<<<"T","i","m","e","_","c","o","d","e","l","i","s","t">>,
      <<"a","s","h","e","-","g","e","o","g","r","a","p","h","y">>,
      <<"H","o","u","r","s","_","c","o","d","e","l","i","s","t">>,
      <<"S","e","x","_","c","o","d","e","l","i","s","t">>,
      <<"W","o","r","k","i","n","g","P","a","t","t","e","r","n","_","c","o","d","e","l","i",
      "s","t">>,
      <<"S","t","a","t","i","s","t","i","c","s","_","c","o","d","e","l","i","s","t">>>>

DimNames ==
    <<<<"t","i","m","e">>,
      <<"g","e","o","g","r","a","p","h","y">>,
      <<"h","o","u","r","s">>,
      <<"s","e","x">>,
      <<"w","o","r","k","i","n","g","p","a","t","t","e","r","n">>,
      <<"s","t","a","t","i","s","t","i","c","s">>>>

MarkingTitles ==
    <<<<"D","a","t","a"," ","m","a","r","k","i","n","g">>,
      <<"C","o","e","f","f","i","c","i","e","n","t"," ","o","f"," ","v","a","r","i","a","t",
      "i","o","n">>>>

Pairs == 0..5

CodeColOf(p) == At(Columns, 3 + 2 * p)

LabelColOf(p) == At(Columns, 4 + 2 * p)

(* The entries of the dimension list stored under name, and those whose
   name is name once lower-cased. *)
ExactHits(name) == {k \in 1..Len(Dims) : Dims[k].Name = name}

FoldedHits(name) == {k \in 1..Len(Dims) : ToLower(Dims[k].Name) = name}

First(S) == CHOOSE k \in S : \A j \in S : k <= j

----------------------------------------------------------------------------
(* C1: populateColumns always returns 15 columns: the observation column,
   the two data-marking columns, then six (code, label) pairs, in the order
   of the header; the k-th column's "@id" is csvURL + "#col=" + k for
   k = 0..14. *)
C1_ColumnLayout ==
    /\ pc = "populateColumns" => status # "panic"
    /\ ColumnsAssigned =>
         /\ Len(Columns) = 15
         /\ \A k \in 0..14 : At(Columns, k)["@id"] = CsvURL \o ColFragment \o Numeral[k + 1]
         /\ At(Columns, 0)["titles"] = <<"V","4","_","2">>
         /\ \A k \in 1..2 : At(Columns, k)["titles"] = MarkingTitles[k]
         /\ \A p \in Pairs :
              /\ CodeColOf(p)["name"] = CodeHeaders[p + 1]
              /\ LabelColOf(p)["name"] = DimNames[p + 1]

C1_Witness ==
    /\ pc = "addNotes"
    /\ Len(Dims) = MaxDims
    /\ Len(Columns) = 15

(* C2: the label column of every dimension pair carries the label and the
   description of the first entry whose name equals the lower-cased
   dimension header, and empty strings when no entry has that name; column
   synthesis does not abort in either case. *)
C2_LabelFromFirstMatch ==
    /\ pc = "populateColumns" => status # "panic"
    /\ ColumnsAssigned =>
         \A p \in Pairs :
            LET hits == ExactHits(DimNames[p + 1])
            IN  IF hits # {}
                THEN /\ LabelColOf(p)["titles"] = Dims[First(hits)].Label
                     /\ LabelColOf(p)["description"] = Dims[First(hits)].Description
                ELSE /\ LabelColOf(p)["titles"] = <<>>
                     /\ LabelColOf(p)["description"] = <<>>

C2_Witness ==
    /\ ColumnsAssigned
    /\ Len(Dims) = 2
    /\ Dims[1].Name = DimNames[1] /\ Dims[2].Name = DimNames[1]
    /\ Dims[1].Label # Dims[2].Label
    /\ LabelColOf(0)["titles"] = Dims[1].Label
    /\ LabelColOf(1)["titles"] = <<>>

(* The lists main passes to addNotes: the list behind each pointer, empty
   for a nil pointer. *)
AlertList ==
    IF Deref(metadata).Alerts = NIL THEN <<>> ELSE Deref(Deref(metadata).Alerts)

UsageList ==
    IF Deref(metadata).UsageNotes = NIL THEN <<>> ELSE Deref(Deref(metadata).UsageNotes)

(* C3: for N alerts and M usage notes addNotes returns N+M notes: the
   alerts in their order (type, description, the bare URL), then the usage
   notes in their order (title, note text, the URL followed by
   "#col=need-to-store"). *)
C3_NotesInOrder ==
    NotesAssigned =>
        LET notes == Deref(csv).Notes
            N     == Len(AlertList)
            M     == Len(UsageList)
        IN  /\ Len(notes) = N + M
            /\ \A i \in 1..N :
                 /\ notes[i].Type = AlertList[i].Type
                 /\ notes[i].Body = AlertList[i].Description
                 /\ notes[i].Target = CsvURL
            /\ \A j \in 1..M :
                 /\ notes[N + j].Type = UsageList[j].Title
                 /\ notes[N + j].Body = UsageList[j].Note
                 /\ notes[N + j].Target = CsvURL \o NoteFragment

C3_Witness ==
    /\ pc = "Marshal"
    /\ Len(AlertList) = 2 /\ AlertList[1] # AlertList[2]
    /\ Len(UsageList) = 2 /\ UsageList[1] # UsageList[2]
    /\ Len(Deref(csv).Notes) = 4

(* C4: for a document with a non-empty contacts list assignTopLevel returns
   a CSVW document whose url, title, description, issued, theme, license,
   frequency and creator equal the source's CSV link, title, description,
   release date, theme, license, release frequency and publisher, and whose
   contact is the first contact; for an empty contacts list it panics and
   returns no document. *)
C4_TopLevelCopy ==
    /\ Projected =>
         LET m == Deref(metadata)
             d == Deref(csv)
         IN  /\ m.Contacts # <<>>
             /\ d.URL = m.Downloads.CSV.HRef
             /\ d.Title = m.Title
             /\ d.Description = m.Description
             /\ d.Issued = m.ReleaseDate
             /\ d.Theme = m.Theme
             /\ d.License = m.License
             /\ d.Frequency = m.ReleaseFrequency
             /\ d.Creator.Name = m.Publisher.Name
             /\ d.Creator.Type = m.Publisher.Type
             /\ d.Creator.ID = m.Publisher.HRef
             /\ d.Contact = m.Contacts[1]
    /\ (metadata # NIL /\ Deref(metadata).Contacts = <<>>) =>
         /\ csv = NIL
         /\ pc = "assignTopLevel"
         /\ status \in {"running", "panic"}
    /\ (pc = "assignTopLevel" /\ status = "panic") =>
         (metadata = NIL \/ Deref(metadata).Contacts = <<>>)

C4_Witness ==
    /\ pc = "populateColumns"
    /\ Len(Deref(metadata).Contacts) = 2
    /\ Deref(metadata).Contacts[1] # Deref(metadata).Contacts[2]
    /\ Deref(csv).Contact = Deref(metadata).Contacts[1]

(* C5: when decoding the body fails the run is not aborted: it goes on
   with the zero-valued metadata document through projection, column
   synthesis and note synthesis and prints a document. *)
C5_DecodeFailureNotAborted ==
    (decodeErr /\ metadata = Ref(ZeroMetadata)) =>
        ~(pc = "assignTopLevel" /\ status = "panic")

(* C6: getMetadata either ends the process or returns a non-nil metadata
   value; a failed request construction, transport or body read ends the
   process inside getMetadata. *)
C6_ReturnsMetadataOrExits ==
    Fetched => metadata # NIL

(* C7, as claimed: the lookup ignores letter case on both sides: an entry
   whose name equals the dimension header up to letter case is matched
   and the code and label columns carry its reference URL, label and
   description. *)
C7_CaseInsensitiveLookup ==
    ColumnsAssigned =>
        \A p \in Pairs :
            LET hits == FoldedHits(DimNames[p + 1])
            IN  hits # {} =>
                  /\ CodeColOf(p)["valueURL"] =
                       Dims[First(hits)].HRef \o CodesPrefix \o CodeHeaders[p + 1] \o CodesSuffix
                  /\ LabelColOf(p)["titles"] = Dims[First(hits)].Label
                  /\ LabelColOf(p)["description"] = Dims[First(hits)].Description

(* C7, amended: only the header token is lower-cased.  The matched entry is
   the first whose stored name equals the lower-cased token exactly, and
   the code and label columns carry its reference URL, label and
   description; a stored name that equals the token only up to letter case
   does not count, and when no stored name equals the lower-cased token the
   columns carry the empty reference URL, label and description. *)
C7_LookupLowercasesHeaderOnly ==
    ColumnsAssigned =>
        \A p \in Pairs :
            LET exact == ExactHits(DimNames[p + 1])
                dim   == IF exact = {} THEN ZeroCodeList ELSE Dims[First(exact)]
            IN  /\ CodeColOf(p)["valueURL"] =
                     dim.HRef \o CodesPrefix \o CodeHeaders[p + 1] \o CodesSuffix
                /\ LabelColOf(p)["titles"] = dim.Label
                /\ LabelColOf(p)["description"] = dim.Description

C7_Witness ==
    /\ ColumnsAssigned
    /\ Len(Dims) = 1
    /\ Dims[1].Name = <<"T","i","m","e">>
    /\ LabelColOf(0)["titles"] = <<>>
    /\ CodeColOf(0)["valueURL"] = CodesPrefix \o CodeHeaders[1] \o CodesSuffix

(* C8: a document is written to standard output at most once, and only
   after fetch, projection, column synthesis, note synthesis and
   marshalling have completed in that order; a run that aborts (log.Fatal
   or panic), or whose metadata is nil or has no contacts, never writes a
   document. *)
C8_PrintedOnceAtTheEnd ==
    /\ Len(PrintedDocs) <= 1
    /\ PrintedDocs # <<>> =>
         /\ SubSeq(completed, 1, 5) =
              <<"getMetadata", "assignTopLevel", "populateColumns", "addNotes", "Marshal">>
         /\ PrintedDocs[1] = Marshal(Deref(csv))
    /\ status \in {"fatal", "panic"} => PrintedDocs = <<>>
    /\ (Fetched /\ (metadata = NIL \/ Deref(metadata).Contacts = <<>>)) =>
         PrintedDocs = <<>>

C8_Witness ==
    /\ status = "returned"
    /\ Len(PrintedDocs) = 1
    /\ Len(stdout) = 1

(* C9: the attributes of a column are fixed by its role: the observation
   column has "datatype" = "number", "required" = true, "@id" and "name" =
   the unit of measure; a data-marking column has exactly "titles" and
   "@id"; a code column exactly "name", "@id", "valueURL" and "required";
   a label column exactly "titles", "name", "description" and "@id". *)
C9_AttributesByRole ==
    ColumnsAssigned =>
        /\ {"datatype", "required", "@id", "name"} \subseteq DOMAIN At(Columns, 0)
        /\ At(Columns, 0)["datatype"] = NumberType
        /\ At(Columns, 0)["required"] = TRUE
        /\ At(Columns, 0)["name"] = Deref(metadata).UnitOfMeasure
        /\ \A k \in 1..2 : DOMAIN At(Columns, k) = {"titles", "@id"}
        /\ \A p \in Pairs :
             /\ DOMAIN CodeColOf(p) = {"name", "@id", "valueURL", "required"}
             /\ DOMAIN LabelColOf(p) = {"titles", "name", "description", "@id"}

C9_Witness ==
    /\ pc = "exit"
    /\ Len(Columns) = 15
    /\ DOMAIN At(Columns, 14) = {"titles", "name", "description", "@id"}

(* C10: whenever the GET yielded a response, its body has been closed by
   the time getMetadata returns to main, also when reading the body
   failed. *)
C10_BodyClosedOnReturn ==
    (Fetched /\ resp # NIL) => Deref(resp).closed

====
